---- MODULE Spec2Model ----
(***************************************************************************)
(* Chat storage repository (SQLRepository) of go-whatsapp-web-multidevice: *)
(* the chats / messages / devices / schema_info tables, the update-then-   *)
(* insert upserts, the transactional deletes and the schema migrator, as   *)
(* state machines over the SQL statements the Go code issues.  One step is *)
(* one SQL statement (or Begin / Commit) of one caller.                    *)
(***************************************************************************)
EXTENDS Naturals, FiniteSets, Sequences, TLC

\* ------------------------------------------------------------------ bounds
MaxCalls == 2          \* repository calls made in one behaviour, all callers together
MaxFailures == 1       \* storage failures the engine injects in one behaviour
MaxTime == 1           \* last value of the wall clock
MaxMigFailures == 2    \* storage failures injected while migrating
MaxQueryLen == 3       \* characters of a query handed to the dialect adapter

\* ------------------------------------------------------------- value sets
Procs == {"p1", "p2"}
Starts == {"s1", "s2"}           \* process startups, each running initApp
\* a chat identifier as the text "User@Server", kept as its two parts
JidC1 == [Server |-> "s.whatsapp.net", User |-> "c1"]
JidLid == [Server |-> "lid", User |-> "42"]
String(jid) == <<jid.User, jid.Server>>
Jids == {String(JidC1)}
DeviceIDs == {"d1", "d2"}
MsgIDs == {"m1"}
Names == {"a", "b"}
CtxDevices == {"d1", ""}         \* the device of the context, "" when none
PushNames == {"", "a"}
\* <<text content, media kind>> of a payload: a control message, a text, an image
Payloads == {<<"", "">>, <<"x", "">>, <<"", "image">>}

VARIABLES
    isPostgres,   \* SQLRepository.isPostgres, fixed by NewStorageRepository
    now,          \* time.Now()
    chats,        \* table chats: a set of rows
    messages,     \* table messages: a set of rows
    devices,      \* table devices: a set of rows
    failures,     \* storage failures injected so far
    wlock,        \* non-Postgres engine: the writer holding the database lock
    pc,           \* per caller: the statement it is about to issue
    call,         \* per caller: the running (or last) call and its arguments
    ret,          \* per caller: what the last call returned
    aff,          \* per caller: rowsAffected of its UPDATE
    io,           \* per caller: Begin/Exec/Commit issued by the current call
    tx,           \* per caller: its open transaction
    ncalls,       \* calls made, all callers together
    prev,         \* per caller: the call before the current one, with its result
    res,          \* per caller: the value its last read returned beside the error
    schema_info,  \* table schema_info: the set of recorded versions
    schemaTable,  \* whether table schema_info exists
    ddlDone,      \* migration indices whose DDL has taken effect
    mig           \* per migrator run: its position, v, i and what it did

tables == <<chats, messages, devices>>
procVars == <<pc, call, ret, aff, io, tx, ncalls, prev, res>>
migVars == <<schema_info, schemaTable, ddlDone, mig>>
envVars == <<isPostgres, now, failures, wlock>>
vars == <<tables, procVars, migVars, envVars>>

\* ------------------------------------------------------------ the engine
\* a statement either succeeds or fails (connection loss, timeout, busy ...)
FailChoices == IF failures < MaxFailures THEN {FALSE, TRUE} ELSE {FALSE}
Inject(fail) == failures' = IF fail THEN failures + 1 ELSE failures

\* failed: whether a statement inside it has failed
NoTx == [delChats |-> {}, delMsgs |-> {}, failed |-> FALSE, state |-> "none"]

\* rows another open transaction has deleted and not yet committed
LockedChats(p) == UNION {tx[q].delChats : q \in Procs \ {p}}
LockedMsgs(p) == UNION {tx[q].delMsgs : q \in Procs \ {p}}

\* Whether p's write statement touching `rows` of a table may run now.
\* Postgres: it waits for the rows (or the key) an open transaction deleted.
\* Other engine (one writer at a time): it waits for the database lock.
CanWrite(p, blocked) ==
    IF isPostgres THEN ~blocked ELSE wlock \in {"none", p}

ChatKey(r) == <<r.jid, r.device_id>>
MsgKey(r) == <<r.id, r.chat_jid, r.device_id>>

\* PRIMARY KEY (jid, device_id) / (id, chat_jid, device_id) of the migrations
ChatPKFreeAlways(row) == TRUE
ChatPKFree(row) == \A r \in chats : ChatKey(r) # ChatKey(row)
MsgPKFreeAlways(row) == TRUE
MsgPKFree(row) == \A r \in messages : MsgKey(r) # MsgKey(row)

Finish(p, r) ==
    /\ pc' = [pc EXCEPT ![p] = "done"]
    /\ ret' = [ret EXCEPT ![p] = r]

Goto(p, label) ==
    /\ pc' = [pc EXCEPT ![p] = label]
    /\ UNCHANGED ret

Issued(p) == io' = [io EXCEPT ![p] = @ + 1]

\* ------------------------------------------------------------- the calls
NoCall == [op |-> "none"]

\* StoreChat(chat): chat.UpdatedAt = now is taken on entry
StoreChatCall(jid, dev, name, lmt, t) ==
    [dev |-> dev, jid |-> jid, lmt |-> lmt, name |-> name, op |-> "StoreChat",
     t |-> t]

\* StoreMessage(message): message.CreatedAt = UpdatedAt = now on entry.  The
\* sender, origin flag and the media descriptor's other columns are written
\* beside content and media_type by the same two statements.
StoreMessageCall(id, jid, dev, content, media, ts, t) ==
    [content |-> content, dev |-> dev, id |-> id, jid |-> jid,
     media |-> media, mt |-> t, op |-> "StoreMessage", ts |-> ts]

\* whatsapp.NormalizeJIDFromLID: an alias (@lid) identifier resolves, through
\* the protocol session, to the canonical identifier; any other is kept
NormalizeJIDFromLID(jid) == IF jid.Server = "lid" THEN JidC1 ELSE jid

GetChatNameWithPushName(jid, pushName) ==
    IF pushName # "" THEN pushName ELSE jid.User

\* CreateMessage(ctx, evt): the chat it derives, then the message
CreateMessageCall(evtChat, ctxDev, id, pushName, content, media, ts, t) ==
    LET normalizedChatJID == NormalizeJIDFromLID(evtChat)
        chatJID == String(normalizedChatJID)
    IN  [chatErr |-> "none", content |-> content, dev |-> ctxDev,
         evtChat |-> evtChat, id |-> id, jid |-> chatJID, lmt |-> ts,
         media |-> media, mt |-> t,
         name |-> GetChatNameWithPushName(normalizedChatJID, pushName),
         op |-> "CreateMessage", pushName |-> pushName, t |-> t, ts |-> ts]

DeleteCall(op, jid, dev, id) ==
    [dev |-> dev, id |-> id, jid |-> jid, op |-> op]

StoresChat(c) == c.op \in {"StoreChat", "CreateMessage"}
StoresMessage(c) == c.op \in {"StoreMessage", "CreateMessage"}
TxOps == {"DeleteChat", "DeleteChatByDevice", "DeleteDeviceData"}

\* StoreMessage's drop policy
DropsNothing(m) == FALSE
Drops(m) == m.content = "" /\ m.media = ""

ChatRow(c, created, updated) ==
    [created_at |-> created, device_id |-> c.dev, ephemeral_expiration |-> 0,
     jid |-> c.jid, last_message_time |-> c.lmt, name |-> c.name,
     updated_at |-> updated]

MsgRow(c, created, updated) ==
    [chat_jid |-> c.jid, content |-> c.content, created_at |-> created,
     device_id |-> c.dev, id |-> c.id, media_type |-> c.media,
     timestamp |-> c.ts, updated_at |-> updated]

\* the WHERE clauses
ChatUpdateWhere(c) == {r \in chats : r.jid = c.jid /\ r.device_id = c.dev}
MsgUpdateWhere(c) ==
    {r \in messages : r.id = c.id /\ r.chat_jid = c.jid /\ r.device_id = c.dev}

TxMsgsWhere(c) ==
    CASE c.op = "DeleteChat" -> {r \in messages : r.chat_jid = c.jid}
      [] c.op = "DeleteChatByDevice" ->
            {r \in messages : r.chat_jid = c.jid /\ r.device_id = c.dev}
      [] c.op = "DeleteDeviceData" -> {r \in messages : r.device_id = c.dev}

TxChatsWhereAnyDevice(c) == {r \in chats : r.jid = c.jid}
TxChatsWhere(c) ==
    CASE c.op = "DeleteChat" -> {r \in chats : r.jid = c.jid}
      [] c.op = "DeleteChatByDevice" ->
            {r \in chats : r.jid = c.jid /\ r.device_id = c.dev}
      [] c.op = "DeleteDeviceData" -> {r \in chats : r.device_id = c.dev}

DeleteMessageWhere(c) ==
    IF c.op = "DeleteMessage"
    THEN {r \in messages : r.id = c.id /\ r.chat_jid = c.jid}
    ELSE {r \in messages :
             r.id = c.id /\ r.chat_jid = c.jid /\ r.device_id = c.dev}

\* ---------------------------------------------------------- entering a call
\* a caller starts a call when it is between calls
CanCall(p) == pc[p] \in {"idle", "done"} /\ ncalls < MaxCalls

Enter(p, c, label) ==
    /\ CanCall(p)
    /\ ncalls' = ncalls + 1
    /\ prev' = [prev EXCEPT ![p] = [call |-> call[p], ret |-> ret[p]]]
    /\ call' = [call EXCEPT ![p] = c]
    /\ pc' = [pc EXCEPT ![p] = label]
    /\ ret' = [ret EXCEPT ![p] = IF label = "done" THEN c.early ELSE "running"]
    /\ aff' = [aff EXCEPT ![p] = 0]
    /\ io' = [io EXCEPT ![p] = 0]
    /\ UNCHANGED <<tables, tx, migVars, res, envVars>>

StartStoreChat(p) ==
    /\ CanCall(p)
    /\ \E jid \in Jids, dev \in DeviceIDs, name \in Names :
           Enter(p, StoreChatCall(jid, dev, name, now, now), "chatUpdate")

\* lines 80-85: the timestamps, then the drop policy, before any statement
StartStoreMessage(p) ==
    /\ CanCall(p)
    /\ \E id \in MsgIDs, jid \in Jids, dev \in DeviceIDs, payload \in Payloads :
           LET m == StoreMessageCall(id, jid, dev, payload[1], payload[2],
                                     now, now)
           IN  IF Drops(m)
               THEN Enter(p, m @@ [early |-> "nil"], "done")
               ELSE Enter(p, m, "msgUpdate")

StartCreateMessage(p) ==
    /\ CanCall(p)
    /\ \E evtChat \in {JidC1, JidLid}, ctxDev \in CtxDevices,
          id \in MsgIDs, pushName \in PushNames, payload \in Payloads :
           Enter(p, CreateMessageCall(evtChat, ctxDev, id, pushName, payload[1],
                                      payload[2], now, now), "chatUpdate")

StartDeleteChat(p) ==
    /\ CanCall(p)
    /\ \E jid \in Jids :
           Enter(p, DeleteCall("DeleteChat", jid, "", ""), "begin")

StartDeleteChatByDevice(p) ==
    /\ CanCall(p)
    /\ \E jid \in Jids, dev \in DeviceIDs :
           Enter(p, DeleteCall("DeleteChatByDevice", jid, dev, ""), "begin")

\* lines 332-334: the validation, before Begin
RequiresDeviceNever(deviceID) == FALSE
RequiresDevice(deviceID) == deviceID = ""

StartDeleteDeviceData(p) ==
    /\ CanCall(p)
    /\ \E dev \in DeviceIDs \cup {""} :
           LET c == DeleteCall("DeleteDeviceData", "", dev, "")
           IN  IF RequiresDevice(dev)
               THEN Enter(p, c @@ [early |-> "err_validation"], "done")
               ELSE Enter(p, c, "begin")

StartDeleteMessage(p) ==
    /\ CanCall(p)
    /\ \E id \in MsgIDs, jid \in Jids :
           Enter(p, DeleteCall("DeleteMessage", jid, "", id), "delMsg")

StartDeleteMessageByDevice(p) ==
    /\ CanCall(p)
    /\ \E id \in MsgIDs, jid \in Jids, dev \in DeviceIDs :
           Enter(p, DeleteCall("DeleteMessageByDevice", jid, dev, id), "delMsg")

\* ------------------------------------------------------------ the upserts
\* line 47: UPDATE chats SET name, last_message_time, ephemeral_expiration,
\* updated_at
ChatUpdatedKeepName(r, c) ==
    [r EXCEPT !.last_message_time = c.lmt, !.ephemeral_expiration = 0,
              !.updated_at = c.t]
ChatUpdated(r, c) ==
    [r EXCEPT !.name = c.name, !.last_message_time = c.lmt,
              !.ephemeral_expiration = 0, !.updated_at = c.t]

\* line 87: UPDATE messages SET content, timestamp, media_type, ..., updated_at
MsgUpdatedStampsCreated(r, c) ==
    [r EXCEPT !.content = c.content, !.timestamp = c.ts,
              !.media_type = c.media, !.created_at = c.mt,
              !.updated_at = c.mt]
MsgUpdated(r, c) ==
    [r EXCEPT !.content = c.content, !.timestamp = c.ts,
              !.media_type = c.media, !.updated_at = c.mt]

\* StoreMessage as CreateMessage calls it (line 274): its entry, lines 80-85;
\* chatErr keeps what StoreChat returned and line 264 discarded
EnterStoreMessage(p, discarded) ==
    /\ call' = [call EXCEPT ![p].mt = now, ![p].chatErr = discarded]
    /\ IF Drops(call[p]) THEN Finish(p, "nil") ELSE Goto(p, "msgUpdate")

\* StoreChat returns r: to its caller, or into CreateMessage (line 264),
\* which discards r
LeaveStoreChat(p, r) ==
    IF call[p].op = "CreateMessage"
    THEN EnterStoreMessage(p, r)
    ELSE Finish(p, r) /\ UNCHANGED call

\* line 48
ChatUpdate(p) ==
    /\ pc[p] = "chatUpdate"
    /\ LET c == call[p]
           match == ChatUpdateWhere(c)
       IN  /\ CanWrite(p, match \cap LockedChats(p) # {})
           /\ \E fail \in FailChoices :
                /\ Inject(fail)
                /\ Issued(p)
                /\ IF fail
                   THEN /\ UNCHANGED <<chats, aff>>
                        /\ LeaveStoreChat(p, "err")
                   ELSE /\ chats' = (chats \ match)
                                      \cup {ChatUpdated(r, c) : r \in match}
                        /\ aff' = [aff EXCEPT ![p] = Cardinality(match)]
                        /\ IF match = {}
                           THEN Goto(p, "chatInsert") /\ UNCHANGED call
                           ELSE LeaveStoreChat(p, "nil")
    /\ UNCHANGED <<messages, devices, tx, ncalls, prev, migVars, res,
                   isPostgres, now, wlock>>

\* line 56
ChatInsert(p) ==
    /\ pc[p] = "chatInsert"
    /\ LET c == call[p]
           row == ChatRow(c, c.t, c.t)
       IN  /\ CanWrite(p, \E r \in LockedChats(p) : ChatKey(r) = ChatKey(row))
           /\ \E fail \in FailChoices :
                /\ Inject(fail)
                /\ Issued(p)
                /\ IF fail
                   THEN UNCHANGED chats /\ LeaveStoreChat(p, "err")
                   ELSE IF ChatPKFree(row)
                        THEN /\ chats' = chats \cup {row}
                             /\ LeaveStoreChat(p, "nil")
                        ELSE UNCHANGED chats /\ LeaveStoreChat(p, "err_pk")
    /\ UNCHANGED <<messages, devices, aff, tx, ncalls, prev, migVars, res,
                   isPostgres, now, wlock>>

\* line 88
MsgUpdate(p) ==
    /\ pc[p] = "msgUpdate"
    /\ LET c == call[p]
           match == MsgUpdateWhere(c)
       IN  /\ CanWrite(p, match \cap LockedMsgs(p) # {})
           /\ \E fail \in FailChoices :
                /\ Inject(fail)
                /\ Issued(p)
                /\ IF fail
                   THEN UNCHANGED <<messages, aff>> /\ Finish(p, "err")
                   ELSE /\ messages' = (messages \ match)
                                         \cup {MsgUpdated(r, c) : r \in match}
                        /\ aff' = [aff EXCEPT ![p] = Cardinality(match)]
                        /\ IF match = {}
                           THEN Goto(p, "msgInsert")
                           ELSE Finish(p, "nil")
    /\ UNCHANGED <<chats, devices, call, tx, ncalls, prev, migVars, res,
                   isPostgres, now, wlock>>

\* line 96
MsgInsert(p) ==
    /\ pc[p] = "msgInsert"
    /\ LET c == call[p]
           row == MsgRow(c, c.mt, c.mt)
       IN  /\ CanWrite(p, \E r \in LockedMsgs(p) : MsgKey(r) = MsgKey(row))
           /\ \E fail \in FailChoices :
                /\ Inject(fail)
                /\ Issued(p)
                /\ IF fail
                   THEN UNCHANGED messages /\ Finish(p, "err")
                   ELSE IF MsgPKFree(row)
                        THEN messages' = messages \cup {row} /\ Finish(p, "nil")
                        ELSE UNCHANGED messages /\ Finish(p, "err_pk")
    /\ UNCHANGED <<chats, devices, call, aff, tx, ncalls, prev, migVars, res,
                   isPostgres, now, wlock>>

\* ------------------------------------------------- the transactional deletes
\* lines 150, 157, 335-338: Begin.  DeleteChat and DeleteChatByDevice discard
\* Begin's error and call Exec on the nil transaction, which panics;
\* DeleteDeviceData returns the error.
Begin(p) ==
    /\ pc[p] = "begin"
    /\ \E fail \in FailChoices :
         /\ Inject(fail)
         /\ Issued(p)
         /\ IF fail
            THEN /\ UNCHANGED tx
                 /\ Finish(p, IF call[p].op = "DeleteDeviceData"
                              THEN "err" ELSE "panic")
            ELSE /\ tx' = [tx EXCEPT ![p] = [NoTx EXCEPT !.state = "open"]]
                 /\ Goto(p, "txDelMsgs")
    /\ UNCHANGED <<tables, call, aff, ncalls, prev, migVars, res,
                   isPostgres, now, wlock>>

\* A statement inside a transaction whose result the code discards.  On
\* Postgres a failed statement aborts the transaction and every later one
\* fails; on the other engine only the statement is undone.
TxFailChoices(p) ==
    IF tx[p].state = "aborted" THEN {FALSE} ELSE FailChoices
TxAfterFailure(p) ==
    IF isPostgres
    THEN [tx[p] EXCEPT !.state = "aborted", !.failed = TRUE]
    ELSE [tx[p] EXCEPT !.failed = TRUE]

\* lines 151, 158, 341
TxDelMsgs(p) ==
    /\ pc[p] = "txDelMsgs"
    /\ LET match == TxMsgsWhere(call[p])
           aborted == tx[p].state = "aborted"
       IN  /\ aborted \/ CanWrite(p, match \cap LockedMsgs(p) # {})
           /\ \E fail \in TxFailChoices(p) :
                /\ Inject(fail)
                /\ Issued(p)
                /\ IF fail \/ aborted
                   THEN /\ tx' = [tx EXCEPT ![p] = TxAfterFailure(p)]
                        /\ UNCHANGED wlock
                   ELSE /\ tx' = [tx EXCEPT ![p].delMsgs = match]
                        /\ wlock' = IF isPostgres THEN wlock ELSE p
    /\ Goto(p, "txDelChats")
    /\ UNCHANGED <<tables, call, aff, ncalls, prev, migVars, res, isPostgres, now>>

\* lines 152, 159, 342
TxDelChats(p) ==
    /\ pc[p] = "txDelChats"
    /\ LET match == TxChatsWhere(call[p])
           aborted == tx[p].state = "aborted"
       IN  /\ aborted \/ CanWrite(p, match \cap LockedChats(p) # {})
           /\ \E fail \in TxFailChoices(p) :
                /\ Inject(fail)
                /\ Issued(p)
                /\ IF fail \/ aborted
                   THEN /\ tx' = [tx EXCEPT ![p] = TxAfterFailure(p)]
                        /\ UNCHANGED wlock
                   ELSE /\ tx' = [tx EXCEPT ![p].delChats = match]
                        /\ wlock' = IF isPostgres THEN wlock ELSE p
    /\ Goto(p, "commit")
    /\ UNCHANGED <<tables, call, aff, ncalls, prev, migVars, res, isPostgres, now>>

\* lines 153, 160, 344: Commit.  Committing an aborted transaction rolls it
\* back and returns an error; a failed Commit applies nothing.
Commit(p) ==
    /\ pc[p] = "commit"
    /\ \E fail \in TxFailChoices(p) :
         /\ Inject(fail)
         /\ Issued(p)
         /\ IF fail \/ tx[p].state = "aborted"
            THEN UNCHANGED <<chats, messages>> /\ Finish(p, "err")
            ELSE /\ messages' = messages \ tx[p].delMsgs
                 /\ chats' = chats \ tx[p].delChats
                 /\ Finish(p, "nil")
    /\ tx' = [tx EXCEPT ![p] = NoTx]
    /\ wlock' = IF wlock = p THEN "none" ELSE wlock
    /\ UNCHANGED <<devices, call, aff, ncalls, prev, migVars, res, isPostgres, now>>

\* lines 200, 205
DelMsg(p) ==
    /\ pc[p] = "delMsg"
    /\ LET match == DeleteMessageWhere(call[p])
       IN  /\ CanWrite(p, match \cap LockedMsgs(p) # {})
           /\ \E fail \in FailChoices :
                /\ Inject(fail)
                /\ Issued(p)
                /\ IF fail
                   THEN UNCHANGED <<messages, aff>> /\ Finish(p, "err")
                   ELSE /\ messages' = messages \ match
                        /\ aff' = [aff EXCEPT ![p] = Cardinality(match)]
                        /\ Finish(p, "nil")
    /\ UNCHANGED <<chats, devices, call, tx, ncalls, prev, migVars, res,
                   isPostgres, now, wlock>>

\* ------------------------------------------------------ the dialect adapter
\* A query is the sequence of its characters.
QueryChars == {"?", "a", "$"}
RECURSIVE Repeat(_, _)
Repeat(ch, k) == IF k = 0 THEN <<>> ELSE <<ch>> \o Repeat(ch, k - 1)
\* every short query, one with as many placeholders as StoreMessage's INSERT
\* (line 94), and one with text around its placeholders
Queries ==
    UNION {[1..k -> QueryChars] : k \in 0..MaxQueryLen}
        \cup {Repeat("?", 16), <<"a">> \o Repeat("?", 11) \o <<"a", "?">>}

\* strings.Contains / the index strings.Replace(query, "?", ..., 1) finds
IndexOf(q, ch) ==
    IF \E i \in 1..Len(q) : q[i] = ch
    THEN CHOOSE i \in 1..Len(q) : q[i] = ch /\ \A j \in 1..(i - 1) : q[j] # ch
    ELSE 0

\* fmt.Sprintf("$%d", n)
Digit(d) == <<"0", "1", "2", "3", "4", "5", "6", "7", "8", "9">>[d + 1]
RECURSIVE Itoa(_)
Itoa(n) == IF n < 10 THEN <<Digit(n)>> ELSE Itoa(n \div 10) \o <<Digit(n % 10)>>
Marker(n) == <<"$">> \o Itoa(n)

\* line 39: n++
NextOrdinalSame(n) == n
NextOrdinal(n) == n + 1

\* lines 37-40: replace the first "?" while there is one
RECURSIVE Numbered(_, _)
Numbered(query, n) ==
    LET i == IndexOf(query, "?")
    IN  IF i = 0 THEN query
        ELSE Numbered(SubSeq(query, 1, i - 1) \o Marker(n)
                          \o SubSeq(query, i + 1, Len(query)),
                      NextOrdinal(n))

\* lines 32-42: p(query)
P(query) == IF ~isPostgres THEN query ELSE Numbered(query, 1)

\* ---------------------------------------------------------------- the reads
\* A read is one statement: the call, its query and its return in one step.
\* value: what it returns beside err; n: statements issued
Answer(p, c, value, err, n) ==
    /\ CanCall(p)
    /\ ncalls' = ncalls + 1
    /\ prev' = [prev EXCEPT ![p] = [call |-> call[p], ret |-> ret[p]]]
    /\ call' = [call EXCEPT ![p] = c]
    /\ pc' = [pc EXCEPT ![p] = "done"]
    /\ ret' = [ret EXCEPT ![p] = err]
    /\ res' = [res EXCEPT ![p] = value]
    /\ aff' = [aff EXCEPT ![p] = 0]
    /\ io' = [io EXCEPT ![p] = n]
    /\ UNCHANGED <<tables, tx, migVars, isPostgres, now, wlock>>

\* a caller holding a query applies p to it
ApplyP(p) ==
    /\ pc[p] = "p"
    /\ res' = [res EXCEPT ![p] = P(call[p].query)]
    /\ pc' = [pc EXCEPT ![p] = "done"]
    /\ ret' = [ret EXCEPT ![p] = "nil"]
    /\ UNCHANGED <<tables, call, aff, io, tx, ncalls, prev, migVars, envVars>>

\* the zero values of domainChatStorage.Chat, Message and DeviceRecord
ZeroChat ==
    [created_at |-> 0, device_id |-> "", ephemeral_expiration |-> 0,
     jid |-> <<"", "">>, last_message_time |-> 0, name |-> "",
     updated_at |-> 0]
ZeroMsg ==
    [chat_jid |-> <<"", "">>, content |-> "", created_at |-> 0,
     device_id |-> "", id |-> "", media_type |-> "", timestamp |-> 0,
     updated_at |-> 0]
DeviceRow(c, created, updated) ==
    [created_at |-> created, device_id |-> c.dev, display_name |-> c.name,
     jid |-> c.jid, updated_at |-> updated]
ZeroDevice ==
    [created_at |-> 0, device_id |-> "", display_name |-> "",
     jid |-> <<"", "">>, updated_at |-> 0]

\* database/sql Row.Scan of QueryRow: the first row of the result (no ORDER
\* BY: any matching row), sql.ErrNoRows when there is none, or the storage
\* error; the struct scanned into is returned beside the error
QueryRowScan(match, fail, zero) ==
    IF fail THEN {<<zero, "err">>}
    ELSE IF match = {} THEN {<<zero, "ErrNoRows">>}
    ELSE {<<r, "nil">> : r \in match}

\* lines 64, 73, 104, 237: err == sql.ErrNoRows
IsErrNoRowsNever(err) == FALSE
IsErrNoRows(err) == err = "ErrNoRows"

LookupCall(op, jid, dev, id) == [dev |-> dev, id |-> id, jid |-> jid,
                                 op |-> op]
LookupOps == {"GetChat", "GetChatByDevice", "GetMessageByID", "GetDeviceRecord"}

\* the WHERE clauses of lines 62, 71, 102, 236
LookupWhere(c) ==
    CASE c.op = "GetChat" -> {r \in chats : r.jid = c.jid}
      [] c.op = "GetChatByDevice" ->
            {r \in chats : r.jid = c.jid /\ r.device_id = c.dev}
      [] c.op = "GetMessageByID" -> {r \in messages : r.id = c.id}
      [] c.op = "GetDeviceRecord" -> {r \in devices : r.device_id = c.dev}

\* lines 63-67, 72-76, 103-107, 236-240
PointLookup(p, c, zero) ==
    \E fail \in FailChoices : \E o \in QueryRowScan(LookupWhere(c), fail, zero) :
        /\ Inject(fail)
        /\ IF IsErrNoRows(o[2])
           THEN Answer(p, c, <<>>, "nil", 1)
           ELSE Answer(p, c, <<o[1]>>, o[2], 1)

QueryMsgIDs == {"m1", "m2"}

GetChat(p) ==
    /\ CanCall(p)
    /\ \E jid \in Jids :
          PointLookup(p, LookupCall("GetChat", jid, "", ""), ZeroChat)
GetChatByDevice(p) ==
    /\ CanCall(p)
    /\ \E jid \in Jids, dev \in DeviceIDs :
          PointLookup(p, LookupCall("GetChatByDevice", jid, dev, ""), ZeroChat)
GetMessageByID(p) ==
    /\ CanCall(p)
    /\ \E id \in QueryMsgIDs :
          PointLookup(p, LookupCall("GetMessageByID", <<"", "">>, "", id),
                      ZeroMsg)
GetDeviceRecord(p) ==
    /\ CanCall(p)
    /\ \E dev \in DeviceIDs :
          PointLookup(p, LookupCall("GetDeviceRecord", <<"", "">>, dev, ""),
                      ZeroDevice)

\* ------------------------------------------------------------ the listings
\* The characters of the texts the listings compare.
Chars(str) ==
    CASE str = "" -> <<>>
      [] str = "x" -> <<"x">>
      [] str = "_" -> <<"_">>
      [] str = "xyz" -> <<"x", "y", "z">>
      [] str = "bob" -> <<"b", "o", "b">>
      [] str = "hello" -> <<"h", "e", "l", "l", "o">>
      [] str = "alice" -> <<"a", "l", "i", "c", "e">>
      [] str = "Alice" -> <<"A", "l", "i", "c", "e">>
      [] str = "Hello World" ->
            <<"H", "e", "l", "l", "o", " ", "W", "o", "r", "l", "d">>

\* strings.ToLower, and LOWER() of either engine, on these characters
LowerChar(ch) ==
    CASE ch = "A" -> "a" [] ch = "H" -> "h" [] ch = "W" -> "w" [] OTHER -> ch
ToLower(text) == [i \in 1..Len(text) |-> LowerChar(text[i])]

\* SQL LIKE: "%" stands for any run of characters, "_" for any one character,
\* any other character for itself
RECURSIVE Like(_, _)
Like(text, pattern) ==
    IF pattern = <<>> THEN text = <<>>
    ELSE IF Head(pattern) = "%"
         THEN \/ Like(text, Tail(pattern))
              \/ text # <<>> /\ Like(Tail(text), pattern)
         ELSE /\ text # <<>>
              /\ Head(pattern) = "_" \/ Head(pattern) = Head(text)
              /\ Like(Tail(text), Tail(pattern))

\* "%" + text + "%"
Wrapped(text) == <<"%">> \o text \o <<"%">>

\* ORDER BY ... DESC: the rows in an order the engine may return them in
OrderByDesc(rows, column) ==
    {seq \in [1..Cardinality(rows) -> rows] :
        /\ \A i, j \in 1..Cardinality(rows) : i # j => seq[i] # seq[j]
        /\ \A i, j \in 1..Cardinality(rows) : i < j => seq[i][column] >= seq[j][column]}

\* LIMIT n, appended when n > 0 (lines 129-132, 165-167, 183-185)
Limited(seq, n) ==
    IF n > 0 /\ n < Len(seq) THEN SubSeq(seq, 1, n) ELSE seq

SearchTexts == {"hello", "xyz", "_", ""}
Limits == {0, 1}

\* line 182: WHERE chat_jid = ? AND device_id = ? AND LOWER(content) LIKE ?,
\* line 186: bound to "%" + strings.ToLower(searchText) + "%"
SearchWhere(c) ==
    {r \in messages :
        /\ r.chat_jid = c.jid
        /\ r.device_id = c.dev
        /\ Like(ToLower(Chars(r.content)), Wrapped(ToLower(Chars(c.text))))}

\* lines 181-197
SearchMessages(p) ==
    /\ CanCall(p)
    /\ \E dev \in DeviceIDs, jid \in Jids, text \in SearchTexts, limit \in Limits :
        \E fail \in FailChoices :
            LET c == [dev |-> dev, jid |-> jid, limit |-> limit,
                      op |-> "SearchMessages", text |-> text]
            IN  /\ Inject(fail)
                /\ IF fail
                   THEN Answer(p, c, <<>>, "err", 1)
                   ELSE \E seq \in OrderByDesc(SearchWhere(c), "timestamp") :
                            Answer(p, c, Limited(seq, limit), "nil", 1)

\* The engine's LIKE on a column the query does not lower: Postgres compares
\* case-sensitively, the other engine ignores the case of ASCII letters.
EngineLike(text, pattern) ==
    IF isPostgres
    THEN Like(text, pattern)
    ELSE Like(ToLower(text), ToLower(pattern))

SearchNames == {"", "alice", "bob"}

\* lines 115-125: the conditions GetChats appends for the filters supplied
ChatsWhere(c) ==
    {r \in chats :
        /\ c.name # "" => EngineLike(Chars(r.name), Wrapped(Chars(c.name)))
        /\ c.dev # "" => r.device_id = c.dev}

\* lines 110-147
GetChats(p) ==
    /\ CanCall(p)
    /\ \E name \in SearchNames, dev \in DeviceIDs \cup {""}, limit \in Limits :
        \E fail \in FailChoices :
            LET c == [dev |-> dev, limit |-> limit, name |-> name,
                      op |-> "GetChats"]
            IN  /\ Inject(fail)
                /\ IF fail
                   THEN Answer(p, c, <<>>, "err", 1)
                   ELSE \E seq \in OrderByDesc(ChatsWhere(c), "last_message_time") :
                            Answer(p, c, Limited(seq, limit), "nil", 1)

\* ------------------------------------------------------ the device registry
SaveDeviceRecordCall(dev, name, jid, t) ==
    [dev |-> dev, jid |-> jid, name |-> name, op |-> "SaveDeviceRecord",
     t |-> t]

StartSaveDeviceRecord(p) ==
    /\ CanCall(p)
    /\ \E dev \in DeviceIDs, name \in Names, jid \in Jids :
           Enter(p, SaveDeviceRecordCall(dev, name, jid, now), "devUpdate")

\* line 211: UPDATE devices SET display_name, jid, updated_at
DeviceUpdated(r, c) ==
    [r EXCEPT !.display_name = c.name, !.jid = c.jid, !.updated_at = c.t]

\* lines 211-213: the UPDATE's error is discarded; on a failure res is nil
\* and res.RowsAffected() panics
DevUpdate(p) ==
    /\ pc[p] = "devUpdate"
    /\ LET c == call[p]
           match == {r \in devices : r.device_id = c.dev}
       IN  /\ CanWrite(p, FALSE)
           /\ \E fail \in FailChoices :
                /\ Inject(fail)
                /\ Issued(p)
                /\ IF fail
                   THEN UNCHANGED <<devices, aff>> /\ Finish(p, "panic")
                   ELSE /\ devices' = (devices \ match)
                                        \cup {DeviceUpdated(r, c) : r \in match}
                        /\ aff' = [aff EXCEPT ![p] = Cardinality(match)]
                        /\ IF match = {}
                           THEN Goto(p, "devInsert")
                           ELSE Finish(p, "nil")
    /\ UNCHANGED <<chats, messages, call, tx, ncalls, prev, migVars, res,
                   isPostgres, now, wlock>>

\* lines 214-216: the INSERT's result is not looked at; return nil
DevInsert(p) ==
    /\ pc[p] = "devInsert"
    /\ LET c == call[p]
           row == DeviceRow(c, c.t, c.t)
       IN  /\ CanWrite(p, FALSE)
           /\ \E fail \in FailChoices :
                /\ Inject(fail)
                /\ Issued(p)
                /\ devices' =
                      IF fail \/ (\E r \in devices : r.device_id = row.device_id)
                      THEN devices ELSE devices \cup {row}
    /\ Finish(p, "nil")
    /\ UNCHANGED <<chats, messages, call, aff, tx, ncalls, prev, migVars, res,
                   isPostgres, now, wlock>>

\* the wall clock advances
Tick ==
    /\ now < MaxTime
    /\ now' = now + 1
    /\ UNCHANGED <<tables, procVars, migVars, isPostgres, failures, wlock>>

\* ------------------------------------------------------ the schema migrator
\* len(getMigrations()): chats, messages, devices
NumMigrations == 3

\* a run of InitializeSchema: v and i of lines 289-291; log: its statements
\* so far, each <<kind, migration index, succeeded>>; after: the runs that had
\* returned when it began; endv: the recorded version when it returned
IdleRun == [after |-> {}, endv |-> 0, i |-> 0, log |-> <<>>, pc |-> "idle",
            ret |-> "none", v |-> 0]

Max(S) == CHOOSE x \in S : \A y \in S : y <= x
\* line 302: SELECT COALESCE(MAX(version), 0) FROM schema_info
VersionOf(versions) == IF versions = {} THEN 0 ELSE Max(versions)
RecordedVersion == VersionOf(schema_info)

MigFailChoices ==
    IF failures < MaxMigFailures THEN {FALSE, TRUE} ELSE {FALSE}

Returned(r) == mig[r].pc \in {"returned", "serving"}

Logged(r, kind, i, ok) == Append(mig[r].log, <<kind, i, ok>>)

\* line 165: initApp calls InitializeSchema
MigStart(r) ==
    /\ mig[r].pc = "idle"
    /\ mig' = [mig EXCEPT ![r] = [IdleRun EXCEPT
                  !.pc = "createInfo",
                  !.after = {q \in Starts : Returned(q)}]]
    /\ UNCHANGED <<schema_info, schemaTable, ddlDone, tables, procVars, envVars>>

\* line 300: CREATE TABLE IF NOT EXISTS schema_info, its error discarded
MigCreateInfo(r) ==
    /\ mig[r].pc = "createInfo"
    /\ \E fail \in MigFailChoices :
         /\ Inject(fail)
         /\ schemaTable' = (schemaTable \/ ~fail)
         /\ mig' = [mig EXCEPT ![r].pc = "selectMax",
                               ![r].log = Logged(r, "create", 0, ~fail)]
    /\ UNCHANGED <<schema_info, ddlDone, tables, procVars,
                   isPostgres, now, wlock>>

\* line 291: for i := v
LoopStartZero(v) == 0
LoopStart(v) == v

\* lines 291, 296: the loop condition, and the return
LoopOrReturn(run, i, recorded) ==
    IF i < NumMigrations
    THEN [run EXCEPT !.i = i, !.pc = "ddl"]
    ELSE [run EXCEPT !.i = i, !.pc = "returned", !.ret = "nil",
                     !.endv = recorded]

\* lines 301-303: v stays 0 when the query fails, the error is discarded
MigSelectMax(r) ==
    /\ mig[r].pc = "selectMax"
    /\ \E fail \in MigFailChoices :
         /\ Inject(fail)
         /\ LET ok == ~fail /\ schemaTable
                v == IF ok THEN RecordedVersion ELSE 0
            IN  mig' = [mig EXCEPT ![r] = LoopOrReturn(
                           [@ EXCEPT !.v = v,
                                     !.log = Logged(r, "select", 0, ok)],
                           LoopStart(v), RecordedVersion)]
    /\ UNCHANGED <<schema_info, schemaTable, ddlDone, tables, procVars,
                   isPostgres, now, wlock>>

\* line 292: r.db.Exec(migs[i]), a CREATE TABLE IF NOT EXISTS
MigDDL(r) ==
    /\ mig[r].pc = "ddl"
    /\ \E fail \in MigFailChoices :
         /\ Inject(fail)
         /\ ddlDone' = IF fail THEN ddlDone ELSE ddlDone \cup {mig[r].i}
         /\ mig' = [mig EXCEPT ![r].pc = "delVer",
                               ![r].log = Logged(r, "ddl", mig[r].i, ~fail)]
    /\ UNCHANGED <<schema_info, schemaTable, tables, procVars,
                   isPostgres, now, wlock>>

\* line 293: DELETE FROM schema_info WHERE version = i+1
MigDelVer(r) ==
    /\ mig[r].pc = "delVer"
    /\ \E fail \in MigFailChoices :
         /\ Inject(fail)
         /\ LET ok == ~fail /\ schemaTable
            IN  /\ schema_info' = IF ok THEN schema_info \ {mig[r].i + 1}
                                  ELSE schema_info
                /\ mig' = [mig EXCEPT ![r].pc = "insVer",
                                      ![r].log = Logged(r, "del", mig[r].i, ok)]
    /\ UNCHANGED <<schemaTable, ddlDone, tables, procVars,
                   isPostgres, now, wlock>>

\* line 294: INSERT INTO schema_info (version) VALUES (i+1); version is its
\* primary key
MigInsVer(r) ==
    /\ mig[r].pc = "insVer"
    /\ \E fail \in MigFailChoices :
         /\ Inject(fail)
         /\ LET ok == ~fail /\ schemaTable /\ (mig[r].i + 1) \notin schema_info
                versions == IF ok THEN schema_info \cup {mig[r].i + 1}
                            ELSE schema_info
            IN  /\ schema_info' = versions
                /\ mig' = [mig EXCEPT ![r] = LoopOrReturn(
                              [@ EXCEPT !.log = Logged(r, "ins", mig[r].i, ok)],
                              mig[r].i + 1, VersionOf(versions))]
    /\ UNCHANGED <<schemaTable, ddlDone, tables, procVars,
                   isPostgres, now, wlock>>

\* lines 165-167: initApp discards the result and goes on starting the process
InitAppContinue(r) ==
    /\ mig[r].pc = "returned"
    /\ mig' = [mig EXCEPT ![r].pc = "serving"]
    /\ UNCHANGED <<schema_info, schemaTable, ddlDone, tables, procVars, envVars>>

\* ------------------------------------------------------- the specifications
\* The store outlives the process: a run starts from an empty store or from
\* rows earlier runs left: a chat with no message yet (StoreChat under d1), or
\* the same message of the same chat received under d1, or under d1 and d2
\* (CreateMessage).
StoredChat(dev) ==
    ChatRow([dev |-> dev, jid |-> String(JidC1), lmt |-> 0, name |-> "a"], 0, 0)
StoredMsg(dev) ==
    MsgRow([content |-> "x", dev |-> dev, id |-> "m1", jid |-> String(JidC1),
            media |-> "", ts |-> 0], 0, 0)
InitStores ==
    {[chats |-> {StoredChat(d) : d \in D}, messages |-> {StoredMsg(d) : d \in D}] :
        D \in {{}, {"d1"}, {"d1", "d2"}}}
    \cup {[chats |-> {StoredChat("d1")}, messages |-> {}]}

\* no call made yet
InitCallers ==
    /\ wlock = "none"
    /\ pc = [p \in Procs |-> "idle"]
    /\ call = [p \in Procs |-> NoCall]
    /\ ret = [p \in Procs |-> "none"]
    /\ aff = [p \in Procs |-> 0]
    /\ io = [p \in Procs |-> 0]
    /\ tx = [p \in Procs |-> NoTx]
    /\ ncalls = 0
    /\ prev = [p \in Procs |-> [call |-> NoCall, ret |-> "none"]]
    /\ res = [p \in Procs |-> <<>>]

InitRepoWith(dialects, injected) ==
    /\ isPostgres \in dialects
    /\ failures = injected
    /\ now = 0
    /\ \E store \in InitStores :
         /\ chats = store.chats
         /\ messages = store.messages
    /\ devices = {}
    /\ InitCallers

\* the schema as earlier startups left it: k migrations applied and recorded
Migrated(k) ==
    /\ schema_info = 1..k
    /\ schemaTable = (k > 0)
    /\ ddlDone = 0..(k - 1)
    /\ mig = [r \in Starts |-> IdleRun]

InitRepo == InitRepoWith(BOOLEAN, 0)

Init == InitRepo /\ Migrated(NumMigrations)

Step(p) ==
    \/ StartStoreChat(p)
    \/ StartStoreMessage(p)
    \/ StartCreateMessage(p)
    \/ StartDeleteChat(p)
    \/ StartDeleteChatByDevice(p)
    \/ StartDeleteDeviceData(p)
    \/ StartDeleteMessage(p)
    \/ StartDeleteMessageByDevice(p)
    \/ ChatUpdate(p)
    \/ ChatInsert(p)
    \/ MsgUpdate(p)
    \/ MsgInsert(p)
    \/ Begin(p)
    \/ TxDelMsgs(p)
    \/ TxDelChats(p)
    \/ Commit(p)
    \/ DelMsg(p)

\* concurrent callers (request handlers and the receive loop)
Next == \E p \in Procs : Step(p)
Spec == Init /\ [][Next]_vars

\* concurrent callers on the engine cmd/root.go opens (Postgres, line 130),
\* with no storage failure
InitPg == InitRepoWith({TRUE}, MaxFailures) /\ Migrated(NumMigrations)
SpecPg == InitPg /\ [][Next]_vars

\* one caller, sequential calls
NextSeq == Step("p1") \/ Tick
SpecSeq == Init /\ [][NextSeq]_vars

\* one caller reading a store earlier runs filled, and keeping the device
\* registry
QueryChat(dev, name, lmt) ==
    ChatRow([dev |-> dev, jid |-> String(JidC1), lmt |-> lmt, name |-> name],
            0, 0)
QueryMsg(id, dev, content, ts) ==
    MsgRow([content |-> content, dev |-> dev, id |-> id,
            jid |-> String(JidC1), media |-> "", ts |-> ts], 0, 0)
QueryStores ==
    [chats : SUBSET {QueryChat("d1", "Alice", 1), QueryChat("d2", "bob", 0)},
     messages : SUBSET {QueryMsg("m1", "d1", "Hello World", 1),
                        QueryMsg("m2", "d1", "x", 0),
                        QueryMsg("m1", "d2", "x", 0)},
     devices : SUBSET {DeviceRow([dev |-> "d1", jid |-> String(JidC1),
                                  name |-> "a"], 0, 0)}]

InitQuery ==
    /\ isPostgres \in BOOLEAN
    /\ failures = 0
    /\ now = 0
    /\ \E store \in QueryStores :
         /\ chats = store.chats
         /\ messages = store.messages
         /\ devices = store.devices
    /\ InitCallers
    /\ Migrated(NumMigrations)

QueryStep(p) ==
    \/ GetChat(p)
    \/ GetChatByDevice(p)
    \/ GetMessageByID(p)
    \/ GetDeviceRecord(p)
    \/ StartSaveDeviceRecord(p)
    \/ DevUpdate(p)
    \/ DevInsert(p)

NextQuery == QueryStep("p1")
SpecQuery == InitQuery /\ [][NextQuery]_vars

\* one caller listing a store earlier runs filled
InitList == InitQuery /\ devices = {}
ListStep(p) ==
    \/ SearchMessages(p)
    \/ GetChats(p)
NextList == ListStep("p1")
SpecList == InitList /\ [][NextList]_vars

\* one caller writing and deleting while the clock advances, over a store
\* and a device registry earlier runs filled
StoredDevice(dev) ==
    DeviceRow([dev |-> dev, jid |-> String(JidC1), name |-> "a"], 0, 0)
InitStore ==
    /\ isPostgres \in BOOLEAN
    /\ failures = 0
    /\ now = 0
    /\ \E store \in InitStores :
         /\ chats = store.chats
         /\ messages = store.messages
    /\ devices = {StoredDevice("d1")}
    /\ InitCallers
    /\ Migrated(NumMigrations)
StoreStep(p) ==
    \/ StartStoreChat(p)
    \/ StartStoreMessage(p)
    \/ StartCreateMessage(p)
    \/ StartSaveDeviceRecord(p)
    \/ StartDeleteChatByDevice(p)
    \/ StartDeleteDeviceData(p)
    \/ ChatUpdate(p)
    \/ ChatInsert(p)
    \/ MsgUpdate(p)
    \/ MsgInsert(p)
    \/ DevUpdate(p)
    \/ DevInsert(p)
    \/ Begin(p)
    \/ TxDelMsgs(p)
    \/ TxDelChats(p)
    \/ Commit(p)
NextStore == StoreStep("p1") \/ Tick
SpecStore == InitStore /\ [][NextStore]_vars

\* the dialect adapter applied to queries, on either dialect
InitAdapter ==
    /\ isPostgres \in BOOLEAN
    /\ failures = 0
    /\ now = 0
    /\ chats = {} /\ messages = {} /\ devices = {}
    /\ wlock = "none"
    /\ pc = [p \in Procs |-> "p"]
    /\ call \in [Procs -> {[op |-> "p", query |-> query] : query \in Queries}]
    /\ ret = [p \in Procs |-> "none"]
    /\ aff = [p \in Procs |-> 0]
    /\ io = [p \in Procs |-> 0]
    /\ tx = [p \in Procs |-> NoTx]
    /\ ncalls = 0
    /\ prev = [p \in Procs |-> [call |-> NoCall, ret |-> "none"]]
    /\ res = [p \in Procs |-> <<>>]
    /\ Migrated(NumMigrations)
NextAdapter == \E p \in Procs : ApplyP(p)
SpecAdapter == InitAdapter /\ [][NextAdapter]_vars

\* process startups against one database, each running the migrator; the
\* database is new, or was left by a build with one or with all migrations
MigStep(r) ==
    \/ MigStart(r)
    \/ MigCreateInfo(r)
    \/ MigSelectMax(r)
    \/ MigDDL(r)
    \/ MigDelVer(r)
    \/ MigInsVer(r)
    \/ InitAppContinue(r)

InitMig ==
    /\ InitRepo
    /\ chats = {}
    /\ \E k \in {0, 1, NumMigrations} : Migrated(k)
NextMig == \E r \in Starts : MigStep(r)
SpecMig == InitMig /\ [][NextMig]_vars

\* ------------------------------------------------------------------ claims
Moved(p) == <<pc[p], call[p], ret[p], io[p], prev[p]>>' #
            <<pc[p], call[p], ret[p], io[p], prev[p]>>

\* C1: in sequential use, when StoreChat has returned success and the same
\* caller's previous call was StoreChat for the same (chat, device) with
\* another name, the chats table holds exactly one row for that key and the
\* row carries the second call's name.
C1_SecondStoreOf(p) ==
    /\ pc[p] = "done"
    /\ call[p].op = "StoreChat"
    /\ ret[p] = "nil"
    /\ prev[p].call.op = "StoreChat"
    /\ prev[p].call.jid = call[p].jid
    /\ prev[p].call.dev = call[p].dev
    /\ prev[p].call.name # call[p].name
C1_UpsertLatestWins ==
    \A p \in Procs :
        C1_SecondStoreOf(p) =>
            /\ Cardinality(ChatUpdateWhere(call[p])) = 1
            /\ \A r \in ChatUpdateWhere(call[p]) : r.name = call[p].name
C1_Witness ==
    \E p \in Procs :
        /\ C1_SecondStoreOf(p)
        /\ prev[p].ret = "nil"
        /\ aff[p] = 1
        /\ \E r \in chats : ChatKey(r) = <<call[p].jid, call[p].dev>>

\* C2: in every reachable state of the concurrent callers, no two rows of
\* chats share (jid, device_id).
C2_OneRowPerChatKey ==
    \A r1 \in chats : \A r2 \in chats : ChatKey(r1) = ChatKey(r2) => r1 = r2
C2_Witness ==
    \E p \in Procs : \E q \in Procs \ {p} :
        /\ call[p].op = "StoreChat" /\ call[q].op = "StoreChat"
        /\ pc[p] = "done" /\ pc[q] = "done"
        /\ call[p].jid = call[q].jid /\ call[p].dev = call[q].dev
        /\ call[p].name # call[q].name
        /\ ret[p] = "nil" /\ ret[q] = "err_pk"
        /\ Cardinality(ChatUpdateWhere(call[p])) = 1

\* C3: no message row has empty content and empty media kind; a StoreMessage
\* (also the one inside CreateMessage) given such a message issues no
\* statement on messages, returns success, and its steps leave the message
\* rows as they were.
C3_NoEmptyRow ==
    \A m \in messages : ~(m.content = "" /\ m.media_type = "")
C3_DroppedCall(p) == StoresMessage(call[p]) /\ Drops(call[p])
C3_DropReturnsSuccess ==
    \A p \in Procs :
        C3_DroppedCall(p) =>
            /\ pc[p] \notin {"msgUpdate", "msgInsert"}
            /\ pc[p] = "done" => ret[p] = "nil"
C3_DropLeavesRows ==
    \A p \in Procs :
        (Moved(p) /\ StoresMessage(call'[p]) /\ Drops(call'[p]))
            => messages' = messages
C3_DropPolicy ==
    /\ [](C3_NoEmptyRow /\ C3_DropReturnsSuccess)
    /\ [][C3_DropLeavesRows]_vars
C3_Witness ==
    \E p \in Procs :
        /\ C3_DroppedCall(p)
        /\ pc[p] = "done"
        /\ ret[p] = "nil"
        /\ MsgUpdateWhere(call[p]) # {}

\* C4: the step that makes a chat delete visible (its Commit), for each
\* chat (chat identifier, device identifier), either changes nothing of it or
\* leaves neither its chat row nor any of its messages, whatever concurrent
\* writers did meanwhile: no state shows the chat row gone and messages of the
\* chat remaining, or the reverse.
C4_ChatDeleteCommits(p) ==
    /\ pc[p] = "commit"
    /\ pc'[p] = "done"
    /\ call[p].op \in {"DeleteChat", "DeleteChatByDevice"}
C4_ChatRowOf(k) == {r \in chats : ChatKey(r) = k}
C4_MsgsOf(k) == {m \in messages : <<m.chat_jid, m.device_id>> = k}
C4_NoPartialDeletion ==
    [][\A p \in Procs : \A k \in Jids \X (DeviceIDs \cup CtxDevices) :
          (/\ C4_ChatDeleteCommits(p)
           /\ \/ C4_ChatRowOf(k)' # C4_ChatRowOf(k)
              \/ C4_MsgsOf(k)' # C4_MsgsOf(k))
              => C4_ChatRowOf(k)' = {} /\ C4_MsgsOf(k)' = {}]_vars

\* C5: when DeleteChat or DeleteChatByDevice returns, either it returns
\* success and no chat row and no message row of the key remains, or it
\* returns an error and has removed nothing: it never commits the effect of
\* only one of its two DELETE statements.
C5_AllOrNothing ==
    [][\A p \in Procs :
          C4_ChatDeleteCommits(p) =>
              /\ ret'[p] = "nil" =>
                    TxChatsWhere(call[p])' = {} /\ TxMsgsWhere(call[p])' = {}
              /\ ret'[p] # "nil" => chats' = chats /\ messages' = messages]_vars

\* C8: DeleteDeviceData("") returns the validation error having issued no
\* Begin, Exec or Commit, and the step that makes the call changes no table.
C8_EmptyDeviceCall(c) == c.op = "DeleteDeviceData" /\ c.dev = ""
C8_RejectedBeforeIO ==
    \A p \in Procs :
        C8_EmptyDeviceCall(call[p]) =>
            /\ pc[p] = "done"
            /\ ret[p] = "err_validation"
            /\ io[p] = 0
            /\ tx[p] = NoTx
C8_LeavesTables ==
    \A p \in Procs :
        (Moved(p) /\ C8_EmptyDeviceCall(call'[p])) => UNCHANGED tables
C8_ValidationBeforeIO ==
    /\ []C8_RejectedBeforeIO
    /\ [][C8_LeavesTables]_vars
C8_Witness ==
    \E p \in Procs :
        /\ C8_EmptyDeviceCall(call[p])
        /\ ret[p] = "err_validation"
        /\ \E r \in chats : r.device_id = ""
        /\ \E m \in messages : m.device_id = ""

\* C9: with no concurrent writer, after DeleteDeviceData(d), d non-empty,
\* has returned success, no message row and no chat row with device_id = d
\* remains.
C9_DeviceDataRemoved ==
    \A p \in Procs :
        (call[p].op = "DeleteDeviceData" /\ pc[p] = "done" /\ ret[p] = "nil")
            => /\ \A r \in chats : r.device_id # call[p].dev
               /\ \A m \in messages : m.device_id # call[p].dev

\* C10: a DeleteMessage or DeleteMessageByDevice that succeeds and matches a
\* stored message removes exactly one row and changes no other.
C10_DeletesOneRow ==
    [][\A p \in Procs :
          (/\ pc[p] = "delMsg"
           /\ pc'[p] = "done"
           /\ ret'[p] = "nil"
           /\ DeleteMessageWhere(call[p]) # {})
              => /\ Cardinality(messages') = Cardinality(messages) - 1
                 /\ messages' \subseteq messages]_vars

\* C6: when a run of InitializeSchema in which no statement failed has
\* returned and a second run begins after it and reads the recorded version,
\* the second run issues no migration DDL and no write to schema_info, and
\* the recorded version when it returns is the one the first run left.
C6_Statements(r, kinds) ==
    {k \in 1..Len(mig[r].log) : mig[r].log[k][1] \in kinds}
C6_RunClean(r) == \A k \in 1..Len(mig[r].log) : mig[r].log[k][3]
C6_InARow(r1, r2) ==
    /\ r1 # r2
    /\ Returned(r2)
    /\ r1 \in mig[r2].after
    /\ C6_RunClean(r1)
    /\ \E k \in C6_Statements(r2, {"select"}) : mig[r2].log[k][3]
C7_DDLFailed(r) ==
    \E k \in C6_Statements(r, {"ddl"}) : ~mig[r].log[k][3]
C7_NoSilentAdvance ==
    \A r \in Starts :
        /\ \A k \in C6_Statements(r, {"ins"}) :
              mig[r].log[k][3] =>
                  \E j \in 1..k : mig[r].log[j] = <<"ddl", mig[r].log[k][2], TRUE>>
        /\ (Returned(r) /\ C7_DDLFailed(r)) => mig[r].ret # "nil"
        /\ mig[r].pc = "serving" => ~C7_DDLFailed(r)

\* C11: a point lookup (GetChat, GetChatByDevice, GetMessageByID,
\* GetDeviceRecord) returns a non-nil error only when its query failed;
\* otherwise it returns nil with no row when no row matches, and nil with one
\* of the matching rows when some row matches.
C11_Lookup(p) == Moved(p) /\ call'[p].op \in LookupOps
C11_Matching(c) ==
    IF c.op \in {"GetChat", "GetChatByDevice"}
    THEN {r \in chats : r.jid = c.jid /\ (c.op = "GetChat" \/ r.device_id = c.dev)}
    ELSE IF c.op = "GetMessageByID"
    THEN {r \in messages : r.id = c.id}
    ELSE {r \in devices : r.device_id = c.dev}
C11_LookupAnswers ==
    [][\A p \in Procs : C11_Lookup(p) =>
          /\ ret'[p] # "nil" => failures' > failures
          /\ failures' = failures =>
                /\ ret'[p] = "nil"
                /\ C11_Matching(call'[p]) = {} => res'[p] = <<>>
                /\ C11_Matching(call'[p]) # {} =>
                      /\ Len(res'[p]) = 1
                      /\ res'[p][1] \in C11_Matching(call'[p])]_vars
\* a lookup that failed, then one of a key that is not stored while others are
C11_Witness ==
    \E p \in Procs :
        /\ pc[p] = "done"
        /\ prev[p].call.op \in LookupOps
        /\ prev[p].ret = "err"
        /\ call[p].op = "GetChatByDevice"
        /\ ret[p] = "nil"
        /\ res[p] = <<>>
        /\ chats # {}

\* C12: on the numbered-parameter dialect p returns the query with its N-th
\* "?" replaced by "$N" (N = 1..k, left to right, decimal) and every other
\* character kept; on the other dialect it returns the query unchanged.
C12_Ordinal(query, i) == Cardinality({j \in 1..i : query[j] = "?"})
C12_Decimal(n) ==
    IF n < 10 THEN <<Digit(n)>> ELSE <<Digit(n \div 10), Digit(n % 10)>>
RECURSIVE C12_Expected(_, _)
C12_Expected(query, i) ==
    IF i = 0 THEN <<>>
    ELSE C12_Expected(query, i - 1)
             \o (IF query[i] = "?"
                 THEN <<"$">> \o C12_Decimal(C12_Ordinal(query, i))
                 ELSE <<query[i]>>)
C12_PlaceholdersNumbered ==
    \A p \in Procs :
        (pc[p] = "done" /\ call[p].op = "p") =>
            res[p] = IF isPostgres
                     THEN C12_Expected(call[p].query, Len(call[p].query))
                     ELSE call[p].query
\* a query with more than nine placeholders and other text, and a short one
\* with a "$" of its own
C12_Witness ==
    \E p \in Procs : \E q \in Procs :
        /\ pc[p] = "done" /\ pc[q] = "done"
        /\ isPostgres
        /\ Len(call[p].query) = 14
        /\ res[p][Len(res[p]) - 2] = "$"
        /\ call[q].query = <<"?", "$", "?">>
        /\ Len(res[q]) = 5

\* C13: a write operation (StoreChat, StoreMessage, SaveDeviceRecord,
\* DeleteChat, DeleteChatByDevice, DeleteDeviceData, CreateMessage) never
\* returns success when one of its statements failed: not the chat upsert
\* inside CreateMessage, not a statement inside a transaction, not the
\* statement it returns from.
C13_Returns(p) == pc[p] # "done" /\ pc'[p] = "done"
C13_StatementFailed(p) ==
    \/ call'[p].op = "CreateMessage" /\ call'[p].chatErr \notin {"none", "nil"}
    \/ tx[p].failed
    \/ failures' > failures
C13_FailureSurfaces ==
    [][\A p \in Procs :
          (C13_Returns(p) /\ C13_StatementFailed(p)) => ret'[p] # "nil"]_vars

\* C14: when the same notification is delivered to CreateMessage twice, one
\* delivery after the other or both at once, and no statement meets a storage
\* failure, both deliveries return success, and a delivery that follows a
\* completed one changes no column of a chat or message row other than the
\* bookkeeping timestamps.
C14_Notification(c) == <<c.jid, c.dev, c.id, c.name, c.content, c.media, c.ts>>
C14_Delivered(p) == pc[p] = "done" /\ call[p].op = "CreateMessage"
C14_Columns(rows) ==
    {[r EXCEPT !.created_at = 0, !.updated_at = 0] : r \in rows}
C14_BothSucceed ==
    failures = 0 =>
        /\ \A p \in Procs : \A q \in Procs \ {p} :
              (/\ C14_Delivered(p)
               /\ C14_Delivered(q)
               /\ C14_Notification(call[p]) = C14_Notification(call[q]))
                  => ret[p] = "nil" /\ ret[q] = "nil"
        /\ \A p \in Procs :
              (/\ C14_Delivered(p)
               /\ prev[p].call.op = "CreateMessage"
               /\ C14_Notification(prev[p].call) = C14_Notification(call[p]))
                  => ret[p] = "nil" /\ prev[p].ret = "nil"
C14_Redelivery(p) ==
    /\ call[p].op = "CreateMessage"
    /\ prev[p].call.op = "CreateMessage"
    /\ prev[p].ret = "nil"
    /\ C14_Notification(prev[p].call) = C14_Notification(call[p])
    /\ pc[p] # "done"
    /\ Moved(p)
    /\ failures' = 0
C14_IdempotentDelivery ==
    /\ []C14_BothSucceed
    /\ [][\A p \in Procs : C14_Redelivery(p) =>
             /\ C14_Columns(chats') = C14_Columns(chats)
             /\ C14_Columns(messages') = C14_Columns(messages)]_vars

\* C15: SearchMessages returns the messages of the given chat and device
\* whose content contains the search text as a substring, both compared in
\* lower case, and no other message; most recent first; all of them when the
\* cap is not positive, and the first ones up to the cap otherwise.
C15_Contains(text, sub) ==
    \E i \in 1..(Len(text) + 1) :
        /\ i + Len(sub) - 1 <= Len(text)
        /\ SubSeq(text, i, i + Len(sub) - 1) = sub
C15_Expected(c) ==
    {r \in messages :
        /\ r.chat_jid = c.jid
        /\ r.device_id = c.dev
        /\ C15_Contains(ToLower(Chars(r.content)), ToLower(Chars(c.text)))}
C15_Searched(p) ==
    pc[p] = "done" /\ call[p].op = "SearchMessages" /\ ret[p] = "nil"
C15_SearchFindsSubstring ==
    \A p \in Procs :
        C15_Searched(p) =>
            LET found == {res[p][i] : i \in 1..Len(res[p])}
                cap == call[p].limit
                all == C15_Expected(call[p])
            IN  /\ found \subseteq all
                /\ Cardinality(found) = Len(res[p])
                /\ \A i, j \in 1..Len(res[p]) :
                      i < j => res[p][i].timestamp >= res[p][j].timestamp
                /\ \A r \in all \ found :
                      \A f \in found : f.timestamp >= r.timestamp
                /\ Len(res[p]) = IF cap > 0 /\ cap < Cardinality(all)
                                 THEN cap ELSE Cardinality(all)

\* C16: GetChats returns the chat rows that satisfy every filter supplied
\* (name contains the search text, both compared in lower case; device
\* identifier equal to the filter's) and no other row; most recent last
\* message first; all of them when Limit is not positive, and the most recent
\* ones up to Limit otherwise.
C16_Expected(c) ==
    {r \in chats :
        /\ c.name # "" =>
              C15_Contains(ToLower(Chars(r.name)), ToLower(Chars(c.name)))
        /\ c.dev # "" => r.device_id = c.dev}
C16_Listed(p) == pc[p] = "done" /\ call[p].op = "GetChats" /\ ret[p] = "nil"
C16_ChatsMatchFilters ==
    \A p \in Procs :
        C16_Listed(p) =>
            LET found == {res[p][i] : i \in 1..Len(res[p])}
                cap == call[p].limit
                all == C16_Expected(call[p])
            IN  /\ found \subseteq all
                /\ Cardinality(found) = Len(res[p])
                /\ \A i, j \in 1..Len(res[p]) :
                      i < j => res[p][i].last_message_time
                                  >= res[p][j].last_message_time
                /\ \A r \in all \ found :
                      \A f \in found :
                          f.last_message_time >= r.last_message_time
                /\ Len(res[p]) = IF cap > 0 /\ cap < Cardinality(all)
                                 THEN cap ELSE Cardinality(all)

\* C17: a writer whose UPDATE affected no row and whose INSERT then finds the
\* key present (another writer inserted it in between) gets an error from
\* that INSERT: StoreChat and StoreMessage return it, and the stored rows stay
\* as the first inserter wrote them.
C17_LateChatInsert(p) ==
    /\ pc[p] = "chatInsert"
    /\ Moved(p)
    /\ \E r \in chats : r.jid = call[p].jid /\ r.device_id = call[p].dev
C17_LateMsgInsert(p) ==
    /\ pc[p] = "msgInsert"
    /\ Moved(p)
    /\ \E r \in messages :
          r.id = call[p].id /\ r.chat_jid = call[p].jid
              /\ r.device_id = call[p].dev
C17_SecondInsertFails ==
    [][\A p \in Procs :
          /\ C17_LateChatInsert(p) =>
                /\ chats' = chats
                /\ IF call[p].op = "StoreChat"
                   THEN pc'[p] = "done" /\ ret'[p] \in {"err", "err_pk"}
                   ELSE call'[p].chatErr \in {"err", "err_pk"}
          /\ C17_LateMsgInsert(p) =>
                /\ messages' = messages
                /\ pc'[p] = "done"
                /\ ret'[p] \in {"err", "err_pk"}]_vars
\* two StoreChat calls of one new key with different names: the later INSERT
\* failed on the key and the row has the first inserter's name
C17_Witness ==
    \E p \in Procs : \E q \in Procs \ {p} :
        /\ pc[p] = "done" /\ call[p].op = "StoreChat" /\ ret[p] = "nil"
        /\ pc[q] = "done" /\ call[q].op = "StoreChat" /\ ret[q] = "err_pk"
        /\ call[p].jid = call[q].jid /\ call[p].dev = call[q].dev
        /\ call[p].name # call[q].name
        /\ aff[p] = 0 /\ aff[q] = 0
        /\ \E r \in chats :
              /\ r.jid = call[p].jid /\ r.device_id = call[p].dev
              /\ r.name = call[p].name

\* C18: a run of InitializeSchema reads the recorded version v, executes the
\* migrations at indices v, v+1, ... in ascending order and none below v,
\* records version i+1 only after it executed the DDL at index i, and when it
\* returns the recorded version is the number of migrations.
C18_ReadsRecordedVersion ==
    \A r \in Starts :
        (mig[r].pc = "selectMax" /\ mig'[r].pc # "selectMax")
            => mig'[r].v = RecordedVersion
C18_RunInOrder(r) ==
    LET ddls == C6_Statements(r, {"ddl"})
    IN  /\ \A k \in ddls :
              mig[r].log[k][2]
                  = mig[r].v + Cardinality({j \in ddls : j < k})
        /\ \A k \in C6_Statements(r, {"ins"}) :
              \E j \in 1..k : /\ mig[r].log[j][1] = "ddl"
                              /\ mig[r].log[j][2] = mig[r].log[k][2]
        /\ Returned(r) =>
              /\ Cardinality(ddls) = NumMigrations - mig[r].v
              /\ mig[r].endv = NumMigrations
C18_MigrationOrder ==
    /\ [](\A r \in Starts : C18_RunInOrder(r))
    /\ [][C18_ReadsRecordedVersion]_vars

\* C19: the recorded schema version (the highest version in schema_info, 0
\* when it is empty) never decreases in any step of any run of
\* InitializeSchema, overlapping runs included.
C19_VersionNeverDecreases ==
    [][VersionOf(schema_info') >= VersionOf(schema_info)]_vars

\* C20: when CreateMessage returns success for a notification with text or
\* media, a chat row is stored under (canonical chat identifier, device of the
\* context) named by the sender's display name, or by the local part of the
\* canonical identifier when that is empty, with the notification's timestamp
\* as last-message time, and a message row is stored under (message
\* identifier, canonical chat identifier, device) with the notification's
\* content.
C20_Canonical(jid) == IF jid = JidLid THEN JidC1 ELSE jid
C20_Stored(c) ==
    LET canonical == C20_Canonical(c.evtChat)
        key == <<canonical.User, canonical.Server>>
    IN  /\ \E r \in chats' :
              /\ r.jid = key
              /\ r.device_id = c.dev
              /\ r.name = IF c.pushName # "" THEN c.pushName ELSE canonical.User
              /\ r.last_message_time = c.ts
        /\ \E r \in messages' :
              /\ r.id = c.id
              /\ r.chat_jid = key
              /\ r.device_id = c.dev
              /\ r.content = c.content
C20_CreateMessageStores ==
    [][\A p \in Procs :
          (/\ C13_Returns(p)
           /\ call'[p].op = "CreateMessage"
           /\ ret'[p] = "nil"
           /\ call'[p].content # "" \/ call'[p].media # "")
              => C20_Stored(call'[p])]_vars

\* C21: no statement of an upsert changes the created_at of a row it leaves
\* in its table (chats, messages, devices); a row that appears was written by
\* the INSERT branch of a caller and carries the time that call took on
\* entry as created_at; a row the UPDATE branch changed carries the time of
\* the updating call as updated_at.
C21_Key(r) ==
    IF "chat_jid" \in DOMAIN r THEN MsgKey(r)
    ELSE IF "display_name" \in DOMAIN r THEN <<r.device_id>>
    ELSE ChatKey(r)
C21_Kept(before, after) ==
    \A r \in before : \A s \in after :
        C21_Key(r) = C21_Key(s) => s.created_at = r.created_at
C21_New(before, after) ==
    {s \in after : \A r \in before : C21_Key(r) # C21_Key(s)}
C21_Inserted(row, label, stamp) ==
    \E p \in Procs :
        /\ pc[p] = label
        /\ pc'[p] # label
        /\ row.created_at = call[p][stamp]
        /\ row.updated_at = call[p][stamp]
C21_Refreshed(before, after, label, stamp) ==
    \A s \in after \ before :
        (\E r \in before : C21_Key(r) = C21_Key(s)) =>
            \E p \in Procs :
                /\ pc[p] = label
                /\ aff'[p] > 0
                /\ s.updated_at = call[p][stamp]
C21_CreatedAtKept ==
    [][/\ C21_Kept(chats, chats')
       /\ C21_Kept(messages, messages')
       /\ C21_Kept(devices, devices')
       /\ \A s \in C21_New(chats, chats') :
             C21_Inserted(s, "chatInsert", "t")
       /\ \A s \in C21_New(messages, messages') :
             C21_Inserted(s, "msgInsert", "mt")
       /\ \A s \in C21_New(devices, devices') :
             C21_Inserted(s, "devInsert", "t")
       /\ C21_Refreshed(chats, chats', "chatUpdate", "t")
       /\ C21_Refreshed(messages, messages', "msgUpdate", "mt")
       /\ C21_Refreshed(devices, devices', "devUpdate", "t")]_vars
\* after the clock advanced, CreateMessage updated the stored chat and message
\* and SaveDeviceRecord the stored device: each row was created at 0 and
\* updated at 1
C21_Witness ==
    /\ pc["p1"] = "done"
    /\ call["p1"].op = "SaveDeviceRecord"
    /\ prev["p1"].call.op = "CreateMessage"
    /\ prev["p1"].ret = "nil"
    /\ aff["p1"] = 1
    /\ \E r \in chats : r.created_at = 0 /\ r.updated_at = 1
    /\ \E r \in messages : r.created_at = 0 /\ r.updated_at = 1
    /\ \E r \in devices : r.created_at = 0 /\ r.updated_at = 1

\* C22: no step of DeleteChatByDevice(d, c) or DeleteDeviceData(d), from its
\* Begin to its Commit, adds, removes or changes a chat row or a message row
\* whose device identifier differs from d, and none changes the devices
\* table.
C22_DeviceDeleteStep(p) ==
    /\ call[p].op \in {"DeleteChatByDevice", "DeleteDeviceData"}
    /\ pc[p] \in {"begin", "txDelMsgs", "txDelChats", "commit"}
    /\ pc'[p] # pc[p]
C22_OfOthers(rows, d) == {r \in rows : r.device_id # d}
C22_OtherDevicesUntouched ==
    [][\A p \in Procs :
          C22_DeviceDeleteStep(p) =>
              /\ C22_OfOthers(chats', call[p].dev)
                    = C22_OfOthers(chats, call[p].dev)
              /\ C22_OfOthers(messages', call[p].dev)
                    = C22_OfOthers(messages, call[p].dev)
              /\ devices' = devices]_vars
\* DeleteChatByDevice(d1, c1) then DeleteDeviceData(d1) committed over a
\* store holding chat c1 and its message under d1 and d2: d1's rows are
\* gone, d2's rows of the same chat and d1's registry row are there
C22_Witness ==
    /\ pc["p1"] = "done"
    /\ call["p1"].op = "DeleteDeviceData"
    /\ call["p1"].dev = "d1"
    /\ ret["p1"] = "nil"
    /\ prev["p1"].call.op = "DeleteChatByDevice"
    /\ prev["p1"].call.dev = "d1"
    /\ prev["p1"].call.jid = String(JidC1)
    /\ prev["p1"].ret = "nil"
    /\ chats = {StoredChat("d2")}
    /\ messages = {StoredMsg("d2")}
    /\ devices = {StoredDevice("d1")}

====
